---- MODULE Spec2Model ----
(***************************************************************************)
(* A model of src/require/Document.cjs: the Document class that renders a  *)
(* React-like element tree to markup plus a listener setup script.         *)
(*                                                                         *)
(* JavaScript strings that hold markup are sequences of tokens, so that    *)
(* the markup can be read back (which identifier comes first, which        *)
(* attribute follows which).  Attribute keys are sequences of characters,  *)
(* so that toLowerCase, startsWith and substring are computed.             *)
(*                                                                         *)
(* An async function runs synchronously up to its first await; every       *)
(* await is a point where another call on the same Document may run.       *)
(* A render is therefore a process with a stack of suspended frames, and   *)
(* one step of it runs from one await to the next.                         *)
(***************************************************************************)
EXTENDS Integers, Sequences, FiniteSets, TLC

\* ------------------------------------------------------------------ bounds

MaxSiblings == 3
MaxRenders == 2
MaxDocCalls == 1
MaxAttrs == 2
MaxScripts == 2

\* ------------------------------------------------------------- characters

Upper == <<"A", "B", "C", "D", "E", "F", "G", "H", "I", "J", "K", "L", "M",
           "N", "O", "P", "Q", "R", "S", "T", "U", "V", "W", "X", "Y", "Z">>

Lower == <<"a", "b", "c", "d", "e", "f", "g", "h", "i", "j", "k", "l", "m",
           "n", "o", "p", "q", "r", "s", "t", "u", "v", "w", "x", "y", "z">>

\* String.prototype.toLowerCase, one character
LowerChar(c) ==
    IF \E i \in 1..Len(Upper) : Upper[i] = c
    THEN Lower[CHOOSE i \in 1..Len(Upper) : Upper[i] = c]
    ELSE c

\* String.prototype.toLowerCase
ToLowerCase(key) == [i \in 1..Len(key) |-> LowerChar(key[i])]

\* String.prototype.startsWith
StartsWith(key, prefix) ==
    /\ Len(key) >= Len(prefix)
    /\ SubSeq(key, 1, Len(prefix)) = prefix

\* String.prototype.substring(from), from counted from 0
Substring(key, from) == SubSeq(key, from + 1, Len(key))

\* the characters of a key as one string
RECURSIVE KeyStr(_)
KeyStr(key) == IF key = <<>> THEN "" ELSE Head(key) \o KeyStr(Tail(key))

\* Array.prototype.join over strings
RECURSIVE Join(_, _)
Join(strs, sep) ==
    IF strs = <<>> THEN ""
    ELSE IF Len(strs) = 1 THEN strs[1]
    ELSE strs[1] \o sep \o Join(Tail(strs), sep)

\* ----------------------------------------------------------------- values

\* attribute values and nodes: a JavaScript value with its typeof in k
VStr(s) == [k |-> "string", s |-> s]
VNum(n) == [k |-> "number", n |-> n]
VBool(b) == [k |-> "boolean", b |-> b]
VNull == [k |-> "null"]
VUndefined == [k |-> "undefined"]
VSymbol == [k |-> "symbol"]
VFunction(src) == [k |-> "function", src |-> src]
\* a plain object used as a style map: its entries in insertion order
VStyle(entries) == [k |-> "object", entries |-> entries]
\* a string that holds markup: the result of #renderToString
VMarkup(toks) == [k |-> "markup", toks |-> toks]
VArray(els) == [k |-> "array", els |-> els]
\* {type, props}: what JSX builds
VElement(type, props) == [k |-> "element", type |-> type, props |-> props]
\* an object with neither type nor props
VObject == [k |-> "plain"]

TTag(name) == [t |-> "string", name |-> name]
TFragment == [t |-> "symbol", name |-> "Fragment"]
TComponent(name) == [t |-> "function", name |-> name]
TUndefined == [t |-> "undefined", name |-> "undefined"]

Prop(key, val) == [key |-> key, val |-> val]

KChildren == <<"c", "h", "i", "l", "d", "r", "e", "n">>
KOnClick == <<"o", "n", "C", "l", "i", "c", "k">>
KOnChange == <<"o", "n", "C", "h", "a", "n", "g", "e">>
KOnLoadUpper == <<"O", "N", "L", "O", "A", "D">>
KClassName == <<"c", "l", "a", "s", "s", "N", "a", "m", "e">>
KStyle == <<"s", "t", "y", "l", "e">>
KTitle == <<"t", "i", "t", "l", "e">>
KHidden == <<"h", "i", "d", "d", "e", "n">>
KName == <<"n", "a", "m", "e">>
KSrc == <<"s", "r", "c">>
KRel == <<"r", "e", "l">>
KOnInputMixed == <<"O", "n", "I", "n", "p", "u", "t">>

\* typeof value
TypeOf(v) ==
    CASE v.k = "null" -> "object"
      [] v.k = "markup" -> "string"
      [] v.k \in {"array", "element", "plain"} -> "object"
      [] OTHER -> v.k

\* `${value}` and String(value)
ToText(v) ==
    CASE v.k = "string" -> v.s
      [] v.k = "number" -> ToString(v.n)
      [] v.k = "boolean" -> IF v.b THEN "true" ELSE "false"
      [] v.k = "null" -> "null"
      [] v.k = "undefined" -> "undefined"
      [] v.k = "function" -> v.src
      [] OTHER -> "[object Object]"

\* if (value): JavaScript truthiness
Truthy(v) ==
    CASE v.k = "string" -> v.s # ""
      [] v.k = "markup" -> v.toks # <<>>
      [] v.k = "number" -> v.n # 0
      [] v.k = "boolean" -> v.b
      [] v.k \in {"null", "undefined"} -> FALSE
      [] OTHER -> TRUE

\* const name = value: the value is computed once, then Body uses it
Const(value, Body(_)) == CHOOSE result \in {Body(name) : name \in {value}} : TRUE

\* ----------------------------------------------------------------- markup

Tok(k, a, b, n) == [k |-> k, a |-> a, b |-> b, n |-> n]

\* a string as markup; the empty string is the empty markup
Text(s) == IF s = "" THEN <<>> ELSE <<Tok("text", s, "", 0)>>

\* ------------------------------------------------------------ #parseTag

\* `<${type}`: the tag name as text
TypeText(type) == IF type.t = "undefined" THEN "undefined" ELSE type.name

\* a style attribute whose declarations are joined with ', '
StyleTextCommas(entries) ==
    Join([i \in 1..Len(entries) |-> entries[i].key \o ":" \o ToText(entries[i].val)], ", ")

\* Object.entries(value).map(([key, value]) => `${key}:${value.toString()}`).join(';')
StyleText(entries) ==
    Join([i \in 1..Len(entries) |-> entries[i].key \o ":" \o ToText(entries[i].val)], ";")

\* an event type taken from the key as it is written
EventTypeAsWritten(key) == KeyStr(Substring(key, 2))

\* key.substring(2).toLowerCase()
EventType(key) == KeyStr(ToLowerCase(Substring(key, 2)))

\* one round of the forEach over Object.entries(attributes)
ParseAttribute(acc, key, value) ==
    IF acc.threw THEN acc
    ELSE IF key = KChildren THEN [acc EXCEPT !.children = value]
    ELSE IF StartsWith(ToLowerCase(key), <<"o", "n">>) /\ TypeOf(value) = "function"
    THEN [acc EXCEPT !.eventListeners =
              Append(@, [type |-> EventType(key), listener |-> ToText(value)])]
    ELSE IF ToLowerCase(key) = KStyle /\ TypeOf(value) = "object"
    THEN IF value.k = "null"
         THEN [acc EXCEPT !.threw = TRUE]   \* Object.entries(null): TypeError
         ELSE [acc EXCEPT !.html =
                   Append(@, Tok("attr", "style",
                                 StyleText(IF value.k = "object" THEN value.entries
                                           ELSE <<>>), 0))]
    ELSE IF TypeOf(value) = "boolean"
    THEN IF value.b
         THEN [acc EXCEPT !.html = Append(@, Tok("bare", KeyStr(key), "", 0))]
         ELSE acc
    ELSE IF TypeOf(value) # "symbol"
    THEN [acc EXCEPT !.html =
              Append(@, Tok("attr",
                            IF key = KClassName THEN "class" ELSE KeyStr(key),
                            ToText(value), 0))]
    ELSE acc

\* the forEach over Object.entries(attributes), in insertion order
RECURSIVE ParseAttributes(_, _)
ParseAttributes(acc, attributes) ==
    IF attributes = <<>> THEN acc
    ELSE Const(ParseAttribute(acc, Head(attributes).key, Head(attributes).val),
               LAMBDA next : ParseAttributes(next, Tail(attributes)))

\* `${type}_${this.#identifier++}`
Identifier(type, counter) == TypeText(type) \o "_" \o ToString(counter)

\* a counter that advances once per handler instead of once per element
NextIdentifierPerHandler(counter, eventListeners) == counter + Len(eventListeners)

\* this.#identifier++ : the counter after the element's identifier is minted
NextIdentifier(counter, eventListeners) == counter + 1

\* the attributes data-identifier and data-listeners of an element with listeners
ListenerAttributes(type, counter, eventListeners) ==
    << Tok("data-identifier", Identifier(type, counter), TypeText(type), counter),
       Tok("data-listeners",
           Join([i \in 1..Len(eventListeners) |-> eventListeners[i].type], ", "),
           "", 0) >>

\* one entry of #listeners: the querySelector line and one addEventListener per handler
ListenerScript(type, counter, eventListeners) ==
    [identifier |-> Identifier(type, counter),
     tag |-> TypeText(type),
     n |-> counter,
     binds |-> eventListeners]

\* unshift instead of push: the newest entry first
PushListenerFirst(listeners, entry) == <<entry>> \o listeners

\* this.#listeners.push(entry)
PushListener(listeners, entry) == Append(listeners, entry)

\* #parseTag up to its await: the opening tag, the children still to render,
\* and the Document's counter and registry after it
ParseTag(type, attributes, counter, listeners) ==
    Const(ParseAttributes([html |-> <<Tok("open", TypeText(type), "", 0)>>,
                           children |-> VStr(""),
                           eventListeners |-> <<>>,
                           threw |-> FALSE], attributes),
          LAMBDA acc :
    LET bound == Len(acc.eventListeners) > 0
    IN  [threw |-> acc.threw,
         html |-> IF bound /\ ~acc.threw
                  THEN acc.html \o ListenerAttributes(type, counter, acc.eventListeners)
                  ELSE acc.html,
         children |-> acc.children,
         handlers |-> Len(acc.eventListeners),
         identifier |-> IF bound /\ ~acc.threw THEN NextIdentifier(counter, acc.eventListeners)
                       ELSE counter,
         listeners |-> IF bound /\ ~acc.threw
                       THEN PushListener(listeners,
                                ListenerScript(type, counter, acc.eventListeners))
                       ELSE listeners])

\* `>${children}</${type}>` appended to the opening tag
CloseTag(html, type, inner) ==
    html \o <<Tok("gt", "", "", 0)>> \o inner \o <<Tok("close", TypeText(type), "", 0)>>

\* ------------------------------------------------------- metadata methods

\* #parseTag called by a metadata method: it runs to its await, and the promise
\* pushed resolves with the tag
ParseMetaTag(tagName, attributes, counter, registry) ==
    LET tag == ParseTag(TTag(tagName), attributes, counter, registry)
    IN  [identifier |-> tag.identifier,
         listeners |-> tag.listeners,
         html |-> CloseTag(tag.html, TTag(tagName), Text(ToText(tag.children)))]

\* attributes.children = value
SetChildren(attributes, value) ==
    IF \E i \in 1..Len(attributes) : attributes[i].key = KChildren
    THEN [i \in 1..Len(attributes) |->
             IF attributes[i].key = KChildren THEN Prop(KChildren, value)
             ELSE attributes[i]]
    ELSE Append(attributes, Prop(KChildren, value))

\* addStyle: if (content) attributes.children = content
StyleAttributes(attributes, content) ==
    IF Truthy(content) THEN SetChildren(attributes, content) ELSE attributes

\* addHeaderScript and addBodyScript: the children set from content
ScriptAttributes(attributes, content, waitDomContentLoaded) ==
    IF TypeOf(content) = "function"
    THEN SetChildren(attributes,
             IF waitDomContentLoaded
             THEN VStr("document.addEventListener('DOMContentLoaded', "
                       \o ToText(content) \o ");")
             ELSE VStr(ToText(content)))
    ELSE IF TypeOf(content) = "string"
    THEN SetChildren(attributes,
             IF waitDomContentLoaded
             THEN VStr("document.addEventListener('DOMContentLoaded', () => {"
                       \o ToText(content) \o "});")
             ELSE content)
    ELSE attributes

\* a call of a metadata method
Call(method, attributes, content, waitDomContentLoaded) ==
    [method |-> method, attributes |-> attributes, content |-> content,
     waitDomContentLoaded |-> waitDomContentLoaded]

\* unshift instead of push: the newest tag first
PushTagFirst(tags, tag) == <<tag>> \o tags

\* this.#metas.push(tag), and the same for links, styles and scripts
PushTag(tags, tag) == Append(tags, tag)

\* the tag a method that adds one builds
TagName(method) ==
    CASE method = "addMeta" -> "meta"
      [] method = "addLink" -> "link"
      [] method = "addStyle" -> "style"
      [] OTHER -> "script"

\* the attributes a method that adds a tag hands to #parseTag
TagAttributes(call) ==
    CASE call.method = "addStyle" -> StyleAttributes(call.attributes, call.content)
      [] call.method \in {"addHeaderScript", "addBodyScript"} ->
           ScriptAttributes(call.attributes, call.content, call.waitDomContentLoaded)
      [] OTHER -> call.attributes

\* the field a method that adds a tag pushes it to
TagField(method) ==
    CASE method = "addMeta" -> "metas"
      [] method = "addLink" -> "links"
      [] method = "addStyle" -> "styles"
      [] method = "addHeaderScript" -> "headerScripts"
      [] OTHER -> "bodyScripts"

\* a tag whose identifier is minted without its entry in the registry
AddedUnregistered(d, field, tag) ==
    [d EXCEPT ![field] = PushTag(@, tag.html),
              !.identifier = tag.identifier,
              !.touched = TRUE]

\* this.#metas.push(this.#parseTag("meta", attributes)), and the same for the others
Added(d, field, tag) ==
    [d EXCEPT ![field] = PushTag(@, tag.html),
              !.identifier = tag.identifier,
              !.listeners = tag.listeners,
              !.touched = TRUE]

\* the fields of the Document d after the call
Called(d, call) ==
    CASE call.method = "setLang" ->
           [d EXCEPT !.lang = ToText(call.content), !.touched = TRUE]
      [] call.method = "setTitle" ->
           [d EXCEPT !.title = ToText(call.content), !.touched = TRUE]
      [] call.method = "setNoScript" ->
           [d EXCEPT !.noScript = ToText(call.content), !.touched = TRUE]
      [] OTHER ->
           Added(d, TagField(call.method),
                 ParseMetaTag(TagName(call.method), TagAttributes(call),
                              d.identifier, d.listeners))

RECURSIVE CalledAll(_, _)
CalledAll(d, calls) ==
    IF calls = <<>> THEN d ELSE CalledAll(Called(d, Head(calls)), Tail(calls))

\* ------------------------------------------------------------- components

\* props.children
PropsChildren(props) ==
    IF \E i \in 1..Len(props) : props[i].key = KChildren
    THEN props[CHOOSE i \in 1..Len(props) : props[i].key = KChildren].val
    ELSE VUndefined

\* {...props, children: rendered}
WithChildren(props, rendered) ==
    [i \in 1..Len(props) |->
        IF props[i].key = KChildren THEN Prop(KChildren, rendered) ELSE props[i]]

Button(src, text) ==
    VElement(TTag("button"), <<Prop(KOnClick, VFunction(src)), Prop(KChildren, VStr(text))>>)

\* the metadata methods of the Document
Methods == {"setLang", "setTitle", "addMeta", "addLink", "addStyle", "addHeaderScript",
            "addBodyScript", "setNoScript"}

\* the call a page component makes on the Document it is given, as the README's
\*   Page = (props, document) => { document.setLang("fr"); return <h1>Hello</h1> }
\* one page component for each method, named after it
PageCall(method) ==
    CASE method = "setLang" -> Call(method, <<>>, VStr("fr"), TRUE)
      [] method = "setTitle" -> Call(method, <<>>, VStr("Page"), TRUE)
      [] method = "setNoScript" -> Call(method, <<>>, VStr("No script"), TRUE)
      [] method = "addMeta" -> Call(method, <<Prop(KName, VStr("keywords"))>>, VNull, TRUE)
      [] method = "addLink" -> Call(method, <<Prop(KRel, VStr("stylesheet"))>>, VNull, TRUE)
      [] method = "addStyle" -> Call(method, <<>>, VStr("h1{}"), TRUE)
      [] method = "addHeaderScript" -> Call(method, <<Prop(KSrc, VStr("a.js"))>>, VNull, TRUE)
      [] OTHER -> Call(method, <<>>, VStr("run()"), TRUE)

\* the function components of the application: what each returns for its props
\*   Wrap  = (props) => <div onClick={h}>{props.children}</div>
\*   Btn   = (props) => <button onClick={f}>ok</button>
\*   Outer = (props) => <Btn/>
\*   Plain = (props) => <p>{props.children}</p>
\*   Twice = (props) => <div>{props.children}{props.children}</div>
Component(component, props) ==
    CASE component \in Methods -> VElement(TTag("h1"), <<Prop(KChildren, VStr("Hello"))>>)
      [] component = "Wrap" ->
            VElement(TTag("div"), <<Prop(KOnClick, VFunction("h")),
                                    Prop(KChildren, PropsChildren(props))>>)
      [] component = "Btn" -> Button("f", "ok")
      [] component = "Outer" -> VElement(TComponent("Btn"), <<>>)
      [] component = "Twice" ->
            VElement(TTag("div"), <<Prop(KChildren,
                VArray(<<PropsChildren(props), PropsChildren(props)>>))>>)
      [] OTHER -> VElement(TTag("p"), <<Prop(KChildren, PropsChildren(props))>>)

\* #createComponent = async (component, props) => component(props): the arguments
\* the default strategy passes to the component; the README's callback
\* async (component, props) => component(props, doc) passes the Document too
ComponentArguments(hook, props) ==
    IF hook = "default" THEN <<props>> ELSE <<props, VObject>>

\* the calls a component makes on the Document while it runs, which is when the
\* callback is called: a page component calls its method on its second argument
DocumentCalls(component, arguments) ==
    IF component \in Methods /\ Len(arguments) = 2 THEN <<PageCall(component)>> ELSE <<>>

\* the class components of the application
\*   class Card { constructor(props) { this.props = props } }
Classes == {"Card"}

\* a page component called without a Document: document.setLang throws a TypeError;
\* a class called without new, as component(props) and component(props, doc) do:
\* TypeError: Class constructor Card cannot be invoked without 'new'
ComponentThrows(component, arguments) ==
    \/ component \in Methods /\ Len(arguments) = 1
    \/ component \in Classes

\* the arguments #renderToString passes to this.#createComponent
CreateComponentArguments(type, props) == <<VFunction(type.name), props>>

\* --------------------------------------------------------- #renderToString

\* a suspended call: index is the position of the list item an "array" frame waits for
Frame(f, type, props, rest, html, index) ==
    [f |-> f, type |-> type, props |-> props, rest |-> rest, html |-> html,
     index |-> index]

\* the frame of renderToDynamicMarkup, awaiting the content
RenderFrame == Frame("render", TUndefined, <<>>, <<>>, <<>>, 0)

NoPending == [component |-> "", props |-> <<>>, hook |-> "", throws |-> FALSE]

Push(m, frame) == [m EXCEPT !.stack = Append(@, frame)]
Pop(m) == [m EXCEPT !.stack = SubSeq(@, 1, Len(@) - 1)]
Top(m) == m.stack[Len(m.stack)]

\* an async function returns: its promise resolves with val
Return(m, val) == [m EXCEPT !.pc = "await", !.val = val]

\* an exception: every caller awaits, none catches, the render rejects with it
Throw(m, error) ==
    [m EXCEPT !.pc = "threw", !.val = <<>>, !.stack = <<>>, !.error = error]

\* the positions, in the lists being iterated, of the items being rendered
Path(stack) ==
    LET arrays == SelectSeq(stack, LAMBDA frame : frame.f = "array")
    IN  [i \in 1..Len(arrays) |-> arrays[i].index]

\* what happens during a render, in the order it happens
Event(m, kind) == [m EXCEPT !.events = Append(@, [kind |-> kind, path |-> Path(m.stack)])]

\* the list items in reverse
ItemsReversed(els) == [i \in 1..Len(els) |-> [index |-> Len(els) + 1 - i,
                                               el |-> els[Len(els) + 1 - i]]]

\* for (const el of element): the items of a list in the order they are visited
Items(els) == [i \in 1..Len(els) |-> [index |-> i, el |-> els[i]]]

\* the children handed over as the node they were written as, after rendering them
ChildrenForComponentUnrendered(props, rendered) == props

\* the props a component is created with when it has children:
\* {...props, children: await this.#renderToString(props.children)}
ChildrenForComponent(props, rendered) == WithChildren(props, VMarkup(rendered))

\* await this.#createComponent(type, props): the callback is called, the render
\* waits for it to settle; element holds the props of the element as written
CreateComponent(type, props, element, m) ==
    LET arguments == ComponentArguments(m.createComponent, props)
        called == CalledAll(Event(m, "hook"), DocumentCalls(type.name, arguments))
    IN  [called EXCEPT
              !.pc = "hook",
              !.pending = [component |-> type.name, props |-> props,
                           hook |-> m.createComponent,
                           throws |-> ComponentThrows(type.name, arguments)],
              !.hookLog = Append(@, [component |-> type.name,
                                     hook |-> m.createComponent,
                                     root |-> Len(m.stack) = 1,
                                     children |-> PropsChildren(element),
                                     args |-> CreateComponentArguments(type, props),
                                     call |-> arguments,
                                     rejected |-> ""])]

RECURSIVE RenderToString(_, _)

\* the body of #renderToString(element) up to its first await
Rendering(element, m) ==
    IF element.k = "undefined" THEN Return(m, Text("undefined"))
    ELSE IF element.k = "null" THEN Return(m, Text("null"))
    ELSE IF element.k = "markup" THEN Return(m, element.toks)
    ELSE IF TypeOf(element) \in {"string", "number"} THEN Return(m, Text(ToText(element)))
    ELSE IF element.k = "array"
    THEN IF element.els = <<>> THEN Return(m, <<>>)
         ELSE LET items == Items(element.els)
              IN  RenderToString(Head(items).el,
                      Push(m, Frame("array", TUndefined, <<>>, Tail(items), <<>>,
                                    Head(items).index)))
    ELSE
      LET type == IF element.k = "element" THEN element.type ELSE TUndefined
          props == IF element.k = "element" THEN element.props ELSE <<>>
      IN  IF type.t = "symbol"
          THEN IF Truthy(PropsChildren(props))
               THEN RenderToString(PropsChildren(props),
                        Push(m, Frame("fragment", type, <<>>, <<>>, <<>>, 0)))
               ELSE Return(m, <<>>)
          ELSE IF type.t = "function"
          THEN IF Truthy(PropsChildren(props))
               THEN RenderToString(PropsChildren(props),
                        Push(m, Frame("children", type, props, <<>>, <<>>, 0)))
               ELSE CreateComponent(type, props, props, m)
          ELSE
            Const(ParseTag(type, props, m.identifier, m.listeners), LAMBDA tag :
            LET logged == IF tag.handlers > 0 THEN Event(m, "identifier") ELSE m
            IN  IF tag.threw THEN Throw(m, "TypeError")
                ELSE RenderToString(tag.children,
                         Push([logged EXCEPT !.identifier = tag.identifier,
                                             !.listeners = tag.listeners,
                                             !.tagLog = Append(@,
                                                 [type |-> TypeText(type),
                                                  handlers |-> tag.handlers,
                                                  html |-> tag.html,
                                                  before |-> m.identifier,
                                                  after |-> tag.identifier])],
                              Frame("tag", type, <<>>, <<>>, tag.html, 0))))

\* #renderToString(element) is called: JavaScript passes its arguments by value,
\* each is evaluated once, before the body runs
RenderToString(node, machine) ==
    Const(node, LAMBDA element : Const(machine, LAMBDA m : Rendering(element, m)))

\* the continuation of an await inside #renderToString or #parseTag: the frame
\* on top of the stack receives val and runs to its next await
Continue(m) ==
    LET top == Top(m)
        rest == Pop(m)
        serialized == [Event(m, "serialized") EXCEPT !.stack = rest.stack]
    IN  CASE top.f = "array" ->
               IF top.rest = <<>> THEN Return(serialized, top.html \o m.val)
               ELSE RenderToString(Head(top.rest).el,
                        Push(serialized,
                             Frame("array", TUndefined, <<>>, Tail(top.rest),
                                   top.html \o m.val, Head(top.rest).index)))
          [] top.f = "fragment" -> Return(rest, m.val)
          [] top.f = "children" ->
               CreateComponent(top.type, ChildrenForComponent(top.props, m.val),
                               top.props, rest)
          [] top.f = "created" -> Return(rest, m.val)
          [] OTHER -> Return(rest, CloseTag(top.html, top.type, m.val))

\* a creation whose promise never settles: the render stays where it is
CreatedNever(m) == m

\* the callback's promise resolves with the component's node, which is rendered
Created(m) ==
    RenderToString(Component(m.pending.component, m.pending.props),
        Push([m EXCEPT !.pending = NoPending],
             Frame("created", TUndefined, <<>>, <<>>, <<>>, 0)))

\* a try/catch around the creation that renders nothing for the component
RejectedCaught(m, reason) == Return([m EXCEPT !.pending = NoPending], <<>>)

\* the callback's promise rejects: await this.#createComponent(...) throws the reason
Rejected(m, reason) == Throw([m EXCEPT !.pending = NoPending], reason)

\* ---------------------------------------------------------------- inputs

\* the elements given to renderToDynamicMarkup
TreeId(name, tag, n, attributes) ==
    [name |-> name, tag |-> tag, n |-> n, attributes |-> attributes]

\* n sibling elements of one tag, each with one click handler
Siblings(tag, n) ==
    VArray([i \in 1..n |->
        VElement(TTag(tag), <<Prop(KOnClick, VFunction("f")), Prop(KChildren, VStr("x"))>>)])

\* the nodes rendered as the root, as a list item, as the child of an element
\* and as the child of a Fragment
Nodes == <<VStr("hi"), VStr(""), VNum(0), VNum(7), VBool(TRUE), VBool(FALSE), VNull,
           VUndefined, Button("f", "x"), VObject>>

Places == {"root", "item", "child", "fragment"}

Placed(node, place) ==
    CASE place = "root" -> node
      [] place = "item" -> VArray(<<node, VStr("x")>>)
      [] place = "child" -> VElement(TTag("p"), <<Prop(KChildren, node)>>)
      [] OTHER -> VElement(TFragment, <<Prop(KChildren, node)>>)

Tree(id) ==
    CASE id.name = "siblings" -> Siblings(id.tag, id.n)
      [] id.name = "node" -> Placed(Nodes[id.n], id.tag)
      \* <Page/> as the root, or after a button inside a div
      [] id.name = "page" ->
           IF id.n = 0 THEN VElement(TComponent(id.tag), <<>>)
           ELSE VElement(TTag("div"), <<Prop(KChildren,
                    VArray(<<Button("f", "x"), VElement(TComponent(id.tag), <<>>)>>))>>)
      [] id.name = "attributes" -> VElement(TTag(id.tag), id.attributes)
      [] id.name = "text" -> VStr("hi")
      [] id.name = "div" ->
           VElement(TTag("div"), <<Prop(KTitle, VStr("a")), Prop(KChildren, VStr("hi"))>>)
      \* the README's <button onClick={...}>Click me</button>
      [] id.name = "button" -> Button("f", "Click me")
      [] id.name = "nested" ->
           VElement(TTag("div"), <<Prop(KOnClick, VFunction("f")),
               Prop(KChildren, VArray(<<Button("g", "x"),
                                        VElement(TTag("span"), <<>>)>>))>>)
      [] id.name = "multi" ->
           VElement(TTag("input"), <<Prop(KOnClick, VFunction("f")),
                                     Prop(KOnChange, VFunction("g")),
                                     Prop(KClassName, VStr("card"))>>)
      [] id.name = "fragment" ->
           VElement(TFragment, <<Prop(KChildren, VArray(<<Button("f", "x"), VStr("t")>>))>>)
      [] id.name = "Btn" -> VElement(TComponent("Btn"), <<>>)
      [] id.name = "Wrap" ->
           VElement(TComponent("Wrap"), <<Prop(KChildren, Button("f", "x"))>>)
      [] id.name = "inner" ->
           VElement(TTag("div"), <<Prop(KChildren, VArray(<<
               VElement(TComponent("Plain"),
                        <<Prop(KChildren, VElement(TComponent("Btn"), <<>>))>>),
               Button("g", "x")>>))>>)
      \* <Btn><button onClick={g}>x</button></Btn>: Btn leaves its children out
      [] id.name = "ignored" ->
           VElement(TComponent("Btn"), <<Prop(KChildren, Button("g", "x"))>>)
      \* <Twice><button onClick={g}>x</button></Twice>
      [] id.name = "twice" ->
           VElement(TComponent("Twice"), <<Prop(KChildren, Button("g", "x"))>>)
      [] OTHER -> VElement(TTag("div"), <<Prop(KChildren, VElement(TComponent("Outer"), <<>>))>>)

TreeNames == {"text", "div", "button", "nested", "multi", "fragment", "Btn", "Wrap",
              "inner", "outer"}

SiblingTrees ==
    {TreeId("siblings", tag, n, <<>>) : tag \in {"button", "a"}, n \in 1..MaxSiblings}

\* the trees of the specifications with one render at a time
AllTrees == {TreeId(n, "", 0, <<>>) : n \in TreeNames} \cup SiblingTrees

\* the trees of the specification with overlapping renders
Trees == {TreeId(n, "", 0, <<>>) : n \in {"div", "button", "Wrap", "inner"}}

PageTrees == {TreeId("page", method, n, <<>>) : method \in Methods, n \in {0, 1}}

\* a class component as the root, or after a button inside a div, and the
\* function components
ComponentTrees ==
    {TreeId("page", class, n, <<>>) : class \in Classes, n \in {0, 1}}
        \cup {TreeId(n, "", 0, <<>>) :
                 n \in {"Btn", "Wrap", "inner", "outer", "ignored", "twice"}}

NodeTrees == {TreeId("node", place, n, <<>>) : place \in Places, n \in 1..Len(Nodes)}

\* the attribute maps of the elements of SpecAttributes: up to MaxAttrs entries
\* with distinct keys
AttributeKeys == {KTitle, KClassName, KStyle, KHidden, KOnClick}

AttributeValues ==
    { VStr("a"), VNum(0), VBool(TRUE), VBool(FALSE), VNull, VUndefined, VSymbol,
      VFunction("f"), VStyle(<<Prop("color", VStr("red")), Prop("fontWeight", VStr("bold"))>>) }

RECURSIVE AttributeMaps(_)
AttributeMaps(n) ==
    IF n = 0 THEN {<<>>}
    ELSE LET shorter == AttributeMaps(n - 1)
         IN  shorter \cup
             { Append(a, Prop(key, val)) :
                 a \in {b \in shorter : Len(b) = n - 1},
                 key \in AttributeKeys, val \in AttributeValues }

DistinctKeys(a) == \A i, j \in 1..Len(a) : a[i].key = a[j].key => i = j

AttributeTrees ==
    { TreeId("attributes", "div", 0, a) :
        a \in {b \in AttributeMaps(MaxAttrs) : DistinctKeys(b)} }

\* the attribute maps with up to n entries over the given keys and values
RECURSIVE MapsOver(_, _, _)
MapsOver(keys, values, n) ==
    IF n = 0 THEN {<<>>}
    ELSE LET shorter == MapsOver(keys, values, n - 1)
         IN  shorter \cup
             { Append(a, Prop(key, val)) :
                 a \in {b \in shorter : Len(b) = n - 1}, key \in keys, val \in values }

\* elements whose attributes are written out as attribute text
SerializedTrees ==
    { TreeId("attributes", "div", 0, a) :
        a \in {b \in MapsOver({KTitle, KClassName, KStyle, KHidden},
                              {VStr("a"), VNum(0), VBool(TRUE), VNull, VSymbol,
                               VFunction("f"),
                               VStyle(<<Prop("color", VStr("red")),
                                        Prop("fontWeight", VStr("bold"))>>)},
                              MaxAttrs) : DistinctKeys(b)} }

\* elements with handlers under on-keys written in several letter cases
EventTrees ==
    { TreeId("attributes", "input", 0, a) :
        a \in {b \in MapsOver({KOnClick, KOnLoadUpper, KOnInputMixed, KTitle},
                              {VFunction("f"), VFunction("g"), VStr("a")},
                              MaxAttrs) : DistinctKeys(b)} }

\* the attribute maps given to addMeta
MetaAttributes ==
    { <<Prop(KName, VStr("keywords"))>>,
      <<Prop(KOnLoadUpper, VFunction("f"))>> }

\* ----------------------------------------------------------------- state

VARIABLES
    identifier,       \* #identifier
    lang,             \* #lang
    title,            \* #title
    metas,            \* #metas
    links,            \* #links
    styles,           \* #styles
    headerScripts,    \* #headerScripts
    bodyScripts,      \* #bodyScripts
    noScript,         \* #noScript
    listeners,        \* #listeners
    createComponent,  \* #createComponent: "default" or the callback that was set
    procs,            \* the calls of renderToDynamicMarkup, suspended or returned
    renders,          \* how many renders this Document has started
    calls,            \* how many configuration calls this Document has had
    touched,          \* whether a metadata method has been called on this Document
    ref,              \* the first output returned by a render alone on a new Document
    caller            \* the attribute map a caller keeps, and its calls with it

document == <<identifier, lang, title, metas, links, styles, headerScripts,
              bodyScripts, noScript, listeners, createComponent>>

vars == <<document, procs, renders, calls, touched, ref, caller>>

Procs == {1, 2}

NoOutput ==
    [lang |-> "", title |-> "", metas |-> <<>>, links |-> <<>>, styles |-> <<>>,
     headerScripts |-> <<>>, content |-> <<>>, bodyScripts |-> <<>>,
     listeners |-> <<>>, noScript |-> ""]

NoTree == TreeId("", "", 0, <<>>)

NoRef == [tree |-> NoTree, hook |-> "", out |-> NoOutput, again |-> FALSE]

\* const attributes = {}: the map of a caller that has made no call with it
NoCaller == [attributes |-> <<>>, calls |-> <<>>]

\* the fields of a Document
Fields ==
    [identifier |-> identifier, lang |-> lang, title |-> title, metas |-> metas,
     links |-> links, styles |-> styles, headerScripts |-> headerScripts,
     bodyScripts |-> bodyScripts, noScript |-> noScript, listeners |-> listeners,
     touched |-> touched]

\* the field initialisers
NewFields ==
    [identifier |-> 0, lang |-> "en", title |-> "Rendered as dynamic markup",
     metas |-> <<>>, links |-> <<>>, styles |-> <<>>, headerScripts |-> <<>>,
     bodyScripts |-> <<>>, noScript |-> "Your browser does not support JavaScript!",
     listeners |-> <<>>, touched |-> FALSE]

Idle ==
    [pc |-> "idle", val |-> <<>>, stack |-> <<>>, pending |-> NoPending,
     tagLog |-> <<>>, hookLog |-> <<>>, error |-> "", events |-> <<>>,
     tree |-> NoTree, out |-> NoOutput,
     onNew |-> FALSE, alone |-> FALSE, hook |-> "",
     start |-> NewFields]

\* the fields of a render that its code writes
Frames == {"pc", "val", "stack", "pending", "tagLog", "hookLog", "error", "events"}

Active(p) == procs[p].pc \notin {"idle", "done", "threw"}

\* the state a render's code reads and writes: its own frames and the Document
MachineOf(proc, fields, callback) ==
    [f \in Frames \cup DOMAIN fields \cup {"createComponent"} |->
        IF f \in Frames THEN proc[f]
        ELSE IF f = "createComponent" THEN callback
        ELSE fields[f]]

Machine(p) == MachineOf(procs[p], Fields, createComponent)

\* the Document's fields are those of d
Wrote(d) ==
    /\ identifier' = d.identifier
    /\ lang' = d.lang
    /\ title' = d.title
    /\ metas' = d.metas
    /\ links' = d.links
    /\ styles' = d.styles
    /\ headerScripts' = d.headerScripts
    /\ bodyScripts' = d.bodyScripts
    /\ noScript' = d.noScript
    /\ listeners' = d.listeners
    /\ touched' = d.touched

\* the render proc with the frames of m
Suspended(proc, m) == [f \in DOMAIN proc |-> IF f \in Frames THEN m[f] ELSE proc[f]]

\* the run of one render's code from m0 to m; the other calls see the Document change
Ran(p, proc, m) ==
    /\ Wrote(m)
    /\ procs' = [procs EXCEPT ![p] = Suspended(proc, m)]

\* another call touches the Document while these renders are suspended
Disturbed(ps) ==
    [q \in Procs |-> IF Active(q) THEN [ps[q] EXCEPT !.alone = FALSE] ELSE ps[q]]

\* constructor and field initialisers
Init ==
    /\ identifier = 0
    /\ lang = "en"
    /\ title = "Rendered as dynamic markup"
    /\ metas = <<>>
    /\ links = <<>>
    /\ styles = <<>>
    /\ headerScripts = <<>>
    /\ bodyScripts = <<>>
    /\ noScript = "Your browser does not support JavaScript!"
    /\ listeners = <<>>
    /\ createComponent = "default"
    /\ procs = [p \in Procs |-> Idle]
    /\ renders = 0
    /\ calls = 0
    /\ touched = FALSE
    /\ ref = NoRef
    /\ caller = NoCaller

\* ---------------------------------------------------------------- actions

\* renderToDynamicMarkup(reactElement) is called: it runs to its first await
RenderToDynamicMarkup(p, id) ==
    /\ ~Active(p)
    /\ \A q \in Procs : q < p => Active(q)
    /\ renders < MaxRenders
    /\ renders' = renders + 1
    /\ LET started == [Idle EXCEPT !.tree = id,
                                   !.onNew = (renders = 0 /\ ~touched),
                                   !.alone = \A q \in Procs : ~Active(q),
                                   !.hook = createComponent,
                                   !.start = Fields]
           m0 == [MachineOf(Idle, Fields, createComponent) EXCEPT
                      !.stack = <<RenderFrame>>]
       IN  \E m \in {RenderToString(Tree(id), m0)} :
               /\ Wrote(m)
               /\ procs' = [Disturbed(procs) EXCEPT ![p] = Suspended(started, m)]
    /\ UNCHANGED <<createComponent, calls, ref, caller>>

\* an await inside #renderToString or #parseTag resumes
Resume(p) ==
    /\ procs[p].pc = "await"
    /\ Len(procs[p].stack) > 1
    /\ \E m \in {Continue(Machine(p))} : Ran(p, procs[p], m)
    /\ UNCHANGED <<createComponent, renders, calls, ref, caller>>

\* the promise of this.#createComponent resolves
ComponentCreated(p) ==
    /\ procs[p].pc = "hook"
    /\ ~procs[p].pending.throws
    /\ \E m \in {Created(Machine(p))} : Ran(p, procs[p], m)
    /\ UNCHANGED <<createComponent, renders, calls, ref, caller>>

\* what a callback's promise rejects with when the component does not throw itself
Reasons == {"Error: no such page"}

\* the promise of this.#createComponent rejects
ComponentFailed(p, reason) ==
    /\ procs[p].pc = "hook"
    /\ procs[p].pending.throws <=> reason = "TypeError"
    /\ \E m \in {Machine(p)} :
           Ran(p, procs[p],
               Rejected([m EXCEPT !.hookLog[Len(m.hookLog)].rejected = reason], reason))
    /\ UNCHANGED <<createComponent, renders, calls, ref, caller>>

\* a template that reads the fields as they were when the render was called
ReadAtCall(p) == procs[p].start

\* this.#lang, this.#title, ...: the fields the template reads, when it reads them
Read(p) == Fields

\* the template of renderToDynamicMarkup, from one await to the next
Template(p) ==
    /\ LET proc == procs[p]
           out == proc.out
       IN  \/ /\ proc.pc = "await"
              /\ Len(proc.stack) = 1
              /\ procs' = [procs EXCEPT ![p] =
                     [proc EXCEPT !.pc = "metas", !.stack = <<>>, !.val = <<>>,
                                  !.out = [out EXCEPT !.content = proc.val,
                                                      !.lang = Read(p).lang,
                                                      !.title = Read(p).title,
                                                      !.metas = Read(p).metas]]]
           \/ /\ proc.pc = "metas"
              /\ procs' = [procs EXCEPT ![p] =
                     [proc EXCEPT !.pc = "links", !.out = [out EXCEPT !.links = Read(p).links]]]
           \/ /\ proc.pc = "links"
              /\ procs' = [procs EXCEPT ![p] =
                     [proc EXCEPT !.pc = "styles", !.out = [out EXCEPT !.styles = Read(p).styles]]]
           \/ /\ proc.pc = "styles"
              /\ procs' = [procs EXCEPT ![p] =
                     [proc EXCEPT !.pc = "headerScripts",
                                  !.out = [out EXCEPT !.headerScripts = Read(p).headerScripts]]]
           \/ /\ proc.pc = "headerScripts"
              /\ procs' = [procs EXCEPT ![p] =
                     [proc EXCEPT !.pc = "bodyScripts",
                                  !.out = [out EXCEPT !.bodyScripts = Read(p).bodyScripts]]]
           \/ /\ proc.pc = "bodyScripts"
              /\ procs' = [procs EXCEPT ![p] =
                     [proc EXCEPT !.pc = "done",
                                  !.out = [out EXCEPT !.listeners = Read(p).listeners,
                                                      !.noScript = Read(p).noScript]]]
    /\ ref' = IF procs'[p].pc = "done" /\ procs[p].onNew /\ procs[p].alone /\ ref = NoRef
              THEN [tree |-> procs[p].tree, hook |-> procs[p].hook,
                    out |-> procs'[p].out, again |-> FALSE]
              ELSE ref
    /\ UNCHANGED <<document, renders, calls, touched, caller>>

\* setCreateComponentCallback(createComponent)
SetCreateComponentCallback(callback) ==
    /\ calls < MaxDocCalls
    /\ calls' = calls + 1
    /\ createComponent' = callback
    /\ procs' = Disturbed(procs)
    /\ UNCHANGED <<identifier, lang, title, metas, links, styles, headerScripts,
                   bodyScripts, noScript, listeners, renders, touched, ref, caller>>

\* #parseTag called by a metadata method: it runs to its await, and the promise
\* pushed resolves with the tag
MetaTag(tagName, attributes) == ParseMetaTag(tagName, attributes, identifier, listeners)

\* setTitle(title)
SetTitle(t) ==
    /\ calls < MaxDocCalls
    /\ calls' = calls + 1
    /\ title' = t
    /\ touched' = TRUE
    /\ procs' = Disturbed(procs)
    /\ UNCHANGED <<identifier, lang, metas, links, styles, headerScripts, bodyScripts,
                   noScript, listeners, createComponent, renders, ref, caller>>

\* addMeta(attributes)
AddMeta(attributes) ==
    /\ calls < MaxDocCalls
    /\ calls' = calls + 1
    /\ LET tag == MetaTag("meta", attributes)
       IN  /\ metas' = Append(metas, tag.html)
           /\ identifier' = tag.identifier
           /\ listeners' = tag.listeners
    /\ touched' = TRUE
    /\ procs' = Disturbed(procs)
    /\ UNCHANGED <<lang, title, links, styles, headerScripts, bodyScripts, noScript,
                   createComponent, renders, ref, caller>>

\* the attributes of the n-th script a caller adds: scripts are told apart by src
ScriptSrc(n) == ToString(n) \o ".js"

ScriptContents == {VNull, VStr("run()"), VFunction("() => run()")}

\* addBodyScript(attributes, content, waitDomContentLoaded)
AddBodyScript(attributes, content, waitDomContentLoaded) ==
    /\ calls < MaxScripts
    /\ calls' = calls + 1
    /\ Wrote(Called(Fields, Call("addBodyScript", attributes, content,
                                 waitDomContentLoaded)))
    /\ procs' = Disturbed(procs)
    /\ UNCHANGED <<createComponent, renders, ref, caller>>

\* an identifier counter shared by all Documents instead of a field of each
NewDocumentSharedCounter ==
    /\ \A p \in Procs : ~Active(p)
    /\ renders > 0
    /\ lang' = "en"
    /\ title' = "Rendered as dynamic markup"
    /\ metas' = <<>>
    /\ links' = <<>>
    /\ styles' = <<>>
    /\ headerScripts' = <<>>
    /\ bodyScripts' = <<>>
    /\ noScript' = "Your browser does not support JavaScript!"
    /\ listeners' = <<>>
    /\ createComponent' = "default"
    /\ procs' = [p \in Procs |-> Idle]
    /\ renders' = 0
    /\ calls' = 0
    /\ touched' = FALSE
    /\ ref' = IF ref = NoRef THEN ref ELSE [ref EXCEPT !.again = TRUE]
    /\ UNCHANGED <<identifier, caller>>

\* new Document(): a Document of its own, with the fields' initial values
NewDocument ==
    /\ \A p \in Procs : ~Active(p)
    /\ renders > 0
    /\ identifier' = 0
    /\ lang' = "en"
    /\ title' = "Rendered as dynamic markup"
    /\ metas' = <<>>
    /\ links' = <<>>
    /\ styles' = <<>>
    /\ headerScripts' = <<>>
    /\ bodyScripts' = <<>>
    /\ noScript' = "Your browser does not support JavaScript!"
    /\ listeners' = <<>>
    /\ createComponent' = "default"
    /\ procs' = [p \in Procs |-> Idle]
    /\ renders' = 0
    /\ calls' = 0
    /\ touched' = FALSE
    /\ ref' = IF ref = NoRef THEN ref ELSE [ref EXCEPT !.again = TRUE]
    /\ UNCHANGED caller

Callbacks == {"default", "callback"}

\* one Document, used by callers that may overlap their renders
Next ==
    \/ \E p \in Procs, id \in Trees : RenderToDynamicMarkup(p, id)
    \/ \E p \in Procs : Resume(p)
    \/ \E p \in Procs : ComponentCreated(p)
    \/ \E p \in Procs : Template(p)
    \/ \E callback \in Callbacks : SetCreateComponentCallback(callback)
    \/ SetTitle("Hello")
    \/ \E attributes \in MetaAttributes : AddMeta(attributes)

Spec == Init /\ [][Next]_vars

\* one Document, used by a caller that awaits each render before the next call
NextSeq ==
    \/ \E id \in AllTrees : RenderToDynamicMarkup(1, id)
    \/ Resume(1)
    \/ ComponentCreated(1)
    \/ Template(1)
    \/ \E callback \in Callbacks : SetCreateComponentCallback(callback)
    \/ SetTitle("Hello")
    \/ \E attributes \in MetaAttributes : AddMeta(attributes)

SpecSeq == Init /\ [][NextSeq]_vars

\* a caller that makes a new Document for each render
NextNew ==
    \/ renders = 0 /\ \E id \in AllTrees : RenderToDynamicMarkup(1, id)
    \/ Resume(1)
    \/ ComponentCreated(1)
    \/ \E reason \in Reasons : ComponentFailed(1, reason)
    \/ Template(1)
    \/ \E callback \in Callbacks : SetCreateComponentCallback(callback)
    \/ NewDocument

SpecNew == Init /\ [][NextNew]_vars

\* one render on a new Document, with callbacks whose promises resolve; the
\* microtask queue runs every continuation that is ready
NextLive ==
    \/ renders = 0 /\ \E id \in AllTrees : RenderToDynamicMarkup(1, id)
    \/ Resume(1)
    \/ ComponentCreated(1)
    \/ Template(1)
    \/ \E callback \in Callbacks : SetCreateComponentCallback(callback)

SpecLive ==
    /\ Init
    /\ [][NextLive]_vars
    /\ WF_vars(Resume(1))
    /\ WF_vars(ComponentCreated(1))
    /\ WF_vars(Template(1))

\* one render of one element on a new Document
NextAttributes ==
    \/ renders = 0 /\ \E id \in AttributeTrees : RenderToDynamicMarkup(1, id)
    \/ Resume(1)
    \/ Template(1)

SpecAttributes == Init /\ [][NextAttributes]_vars

\* one render of one element whose attributes are written out, on a new Document
NextSerialized ==
    \/ renders = 0 /\ \E id \in SerializedTrees : RenderToDynamicMarkup(1, id)
    \/ Resume(1)
    \/ Template(1)

SpecSerialized == Init /\ [][NextSerialized]_vars

\* one render of one element with handlers, on a new Document
NextEvents ==
    \/ renders = 0 /\ \E id \in EventTrees : RenderToDynamicMarkup(1, id)
    \/ Resume(1)
    \/ Template(1)

SpecEvents == Init /\ [][NextEvents]_vars

\* one render of one node in one place, on a new Document
NextNodes ==
    \/ renders = 0 /\ \E id \in NodeTrees : RenderToDynamicMarkup(1, id)
    \/ Resume(1)
    \/ Template(1)

SpecNodes == Init /\ [][NextNodes]_vars

\* one render of a page whose component calls a metadata method
NextPages ==
    \/ renders = 0 /\ \E id \in PageTrees : RenderToDynamicMarkup(1, id)
    \/ Resume(1)
    \/ ComponentCreated(1)
    \/ \E reason \in Reasons \cup {"TypeError"} : ComponentFailed(1, reason)
    \/ Template(1)
    \/ \E callback \in Callbacks : SetCreateComponentCallback(callback)

SpecPages == Init /\ [][NextPages]_vars

\* one render of a tree with components, on a new Document
NextComponents ==
    \/ renders = 0 /\ \E id \in ComponentTrees : RenderToDynamicMarkup(1, id)
    \/ Resume(1)
    \/ ComponentCreated(1)
    \/ ComponentFailed(1, "TypeError")
    \/ Template(1)
    \/ \E callback \in Callbacks : SetCreateComponentCallback(callback)

SpecComponents == Init /\ [][NextComponents]_vars

\* addHeaderScript(attributes, content, waitDomContentLoaded)
AddHeaderScript(attributes, content, waitDomContentLoaded) ==
    /\ calls < MaxDocCalls
    /\ calls' = calls + 1
    /\ Wrote(Called(Fields, Call("addHeaderScript", attributes, content,
                                 waitDomContentLoaded)))
    /\ procs' = Disturbed(procs)
    /\ UNCHANGED <<createComponent, renders, ref, caller>>

\* the trees of a caller whose creations may fail: a component with a child
\* that has a handler, and a component after its sibling's component
AbortedTrees == {TreeId(n, "", 0, <<>>) : n \in {"Wrap", "inner"}}

\* one Document, used by a caller that awaits each render, failed or not,
\* before the next
NextAborted ==
    \/ \E id \in AbortedTrees : RenderToDynamicMarkup(1, id)
    \/ Resume(1)
    \/ ComponentCreated(1)
    \/ \E reason \in Reasons : ComponentFailed(1, reason)
    \/ Template(1)

SpecAborted == Init /\ [][NextAborted]_vars

\* the methods that take a content
ContentMethods == {"addStyle", "addHeaderScript", "addBodyScript"}

\* the default value of the content parameter: "" for addStyle, null for scripts
Omitted(method) == IF method = "addStyle" THEN VStr("") ELSE VNull

\* the tag the last call of a method has pushed
LastTag(d, method) == d[TagField(method)][Len(d[TagField(method)])]

\* doc.addStyle(attributes, content), doc.addHeaderScript(attributes, content, w)
\* or doc.addBodyScript(attributes, content, w) with the object the caller keeps
\* in attributes: the method and the caller hold the same object
AddWithKeptMap(method, content, waitDomContentLoaded) ==
    /\ calls < MaxScripts
    /\ calls' = calls + 1
    /\ \E call \in {Call(method, caller.attributes, content, waitDomContentLoaded)} :
       \E d \in {Called(Fields, call)} :
           /\ Wrote(d)
           /\ caller' = [attributes |-> TagAttributes(call),
                         calls |-> Append(caller.calls,
                                      [method |-> method,
                                       content |-> content,
                                       before |-> caller.attributes,
                                       after |-> TagAttributes(call),
                                       tag |-> LastTag(d, method)])]
    /\ procs' = Disturbed(procs)
    /\ UNCHANGED <<createComponent, renders, ref>>

\* a caller that keeps one attribute map for its styles and scripts, before
\* and during one render
NextKept ==
    \/ renders = 0 /\ RenderToDynamicMarkup(1, TreeId("button", "", 0, <<>>))
    \/ Resume(1)
    \/ Template(1)
    \/ \E method \in ContentMethods, waitDomContentLoaded \in BOOLEAN :
       \E content \in {Omitted(method), VStr("run()")} :
           AddWithKeptMap(method, content, waitDomContentLoaded)

SpecKept == Init /\ [][NextKept]_vars

\* the tree of the callers that share one Document: a component whose child and
\* whose own element have handlers
SharedTrees == {TreeId(n, "", 0, <<>>) : n \in {"Wrap"}}

\* one Document shared by callers whose renders overlap and fail, and by
\* callers that add header scripts with a load handler
NextShared ==
    \/ \E p \in Procs, id \in SharedTrees : RenderToDynamicMarkup(p, id)
    \/ \E p \in Procs : Resume(p)
    \/ \E p \in Procs : ComponentCreated(p)
    \/ \E p \in Procs, reason \in Reasons : ComponentFailed(p, reason)
    \/ \E p \in Procs : Template(p)
    \/ AddHeaderScript(<<Prop(KOnLoadUpper, VFunction("f"))>>, VNull, TRUE)

SpecShared == Init /\ [][NextShared]_vars

\* a caller that adds body scripts before and during one render
NextScripts ==
    \/ renders = 0 /\ \E name \in {"button", "nested"} :
                          RenderToDynamicMarkup(1, TreeId(name, "", 0, <<>>))
    \/ Resume(1)
    \/ Template(1)
    \/ \E content \in ScriptContents, waitDomContentLoaded \in BOOLEAN :
           AddBodyScript(<<Prop(KSrc, VStr(ScriptSrc(calls)))>>, content,
                         waitDomContentLoaded)

SpecScripts == Init /\ [][NextScripts]_vars

\* ------------------------------------------------------------ properties

Done(p) == procs[p].pc = "done"

\* the render was called on a Document nothing had been called on but
\* setCreateComponentCallback, and no other call was made while it ran
OnNewDocument(p) == procs[p].onNew /\ procs[p].alone

\* the data-identifier attributes of a markup, from its start to its end
IdentifierTokens(toks) == SelectSeq(toks, LAMBDA t : t.k = "data-identifier")

\* their counters
Counters(toks) ==
    LET ids == IdentifierTokens(toks) IN [i \in 1..Len(ids) |-> ids[i].n]

\* 0, 1, ..., n - 1
CountingFromZero(n) == [i \in 1..n |-> i - 1]

\* the render of a tree by a Document of its own, run from its call to the
\* return of the content
RECURSIVE Run(_)
Run(m) ==
    IF m.pc = "hook"
    THEN IF m.pending.throws THEN Rejected(m, "TypeError") ELSE Run(Created(m))
    ELSE IF m.pc = "await" /\ Len(m.stack) > 1 THEN Run(Continue(m))
    ELSE m

RenderAlone(id, callback) ==
    Run(RenderToString(Tree(id),
            [MachineOf(Idle, NewFields, callback) EXCEPT !.stack = <<RenderFrame>>]))

\* C1: after a render on a new Document, the counters of the data-identifier
\* attributes read from the start to the end of the content are 0, 1, 2, ...,
\* and the listener script lists its entries in that same order.
C1_IdentifiersInMarkupOrder ==
    \A p \in Procs :
        Done(p) /\ OnNewDocument(p) =>
            LET counters == Counters(procs[p].out.content)
                script == procs[p].out.listeners
            IN  /\ counters = CountingFromZero(Len(counters))
                /\ [i \in 1..Len(script) |-> script[i].n] = counters

\* C2: a render that no other call overlaps, on a Document whose metadata methods
\* were never called, starts with counter 0 and an empty registry, and returns
\* the content and the listener script that the tree gets on a new Document.
C2_EveryRenderStartsAfresh ==
    \A p \in Procs :
        Done(p) /\ procs[p].alone /\ ~touched =>
            LET alone == RenderAlone(procs[p].tree, procs[p].hook)
            IN  /\ procs[p].start.identifier = 0
                /\ procs[p].start.listeners = <<>>
                /\ procs[p].out.content = alone.val
                /\ procs[p].out.listeners = alone.listeners

\* C3: n siblings of tag T with one handler each, rendered on a new Document:
\* the i-th sibling (from 0) carries the identifier T_i, and the registry holds
\* n entries, the i-th being the one of T_i.
C3_SiblingsNumberedLeftToRight ==
    \A p \in Procs :
        Done(p) /\ OnNewDocument(p) /\ procs[p].tree.name = "siblings" =>
            LET n == procs[p].tree.n
                tag == procs[p].tree.tag
                ids == IdentifierTokens(procs[p].out.content)
                script == procs[p].out.listeners
            IN  /\ Len(ids) = n
                /\ \A i \in 1..n : ids[i].a = tag \o "_" \o ToString(i - 1)
                /\ Len(script) = n
                /\ \A i \in 1..n :
                      /\ script[i].identifier = tag \o "_" \o ToString(i - 1)
                      /\ Len(script[i].binds) = 1
                      /\ script[i].binds[1].type = "click"

C3_ThreeSiblingsRendered ==
    \E p \in Procs :
        /\ Done(p) /\ OnNewDocument(p)
        /\ procs[p].tree.name = "siblings" /\ procs[p].tree.n >= 3
        /\ Len(procs[p].out.listeners) >= 3

\* the elements with handlers among the first n elements #parseTag has serialized
BoundBefore(log, n) == Cardinality({j \in 1..(n - 1) : log[j].handlers > 0})

\* C4: in a render on a new Document, an element gets an identifier exactly when
\* it has a handler; the identifier is T_c, c the number of elements with
\* handlers serialized before it; the counter advances by one for it and by
\* nothing for an element without handlers; data-identifier and data-listeners
\* are the last attributes of the opening tag, before the children.
C4_OneIdentifierPerBoundElement ==
    \A p \in Procs :
        OnNewDocument(p) =>
            /\ \A i \in 1..Len(procs[p].tagLog) :
                  LET e == procs[p].tagLog[i]
                      ids == IdentifierTokens(e.html)
                      last == Len(e.html)
                  IN  /\ (e.handlers > 0) <=> (Len(ids) > 0)
                      /\ Len(ids) <= 1
                      /\ e.after - e.before = (IF e.handlers > 0 THEN 1 ELSE 0)
                      /\ e.handlers > 0 =>
                            /\ ids[1].a = e.type \o "_"
                                            \o ToString(BoundBefore(procs[p].tagLog, i))
                            /\ e.html[last - 1].k = "data-identifier"
                            /\ e.html[last].k = "data-listeners"
            /\ Done(p) =>
                  LET content == procs[p].out.content
                  IN  \A i \in 1..Len(content) :
                         content[i].k = "data-identifier" =>
                            /\ content[i + 1].k = "data-listeners"
                            /\ content[i + 2].k = "gt"

C4_TwoHandlersOneIdentifier ==
    \E p \in Procs :
        /\ Done(p) /\ OnNewDocument(p)
        /\ \E i \in 1..Len(procs[p].tagLog) :
              /\ procs[p].tagLog[i].handlers = 2
              /\ Len(procs[p].tagLog[i].html) = 4
        /\ Len(procs[p].out.listeners) = 1

\* C5: a render of a tree none of whose elements has a handler returns a
\* listener script with an empty body.
C5_NoHandlersEmptyScript ==
    \A p \in Procs :
        (/\ Done(p) /\ procs[p].alone /\ ~touched
         /\ \A i \in 1..Len(procs[p].tagLog) : procs[p].tagLog[i].handlers = 0)
            => procs[p].out.listeners = <<>>

\* C6: two renders of one tree, each by a new Document with the same callback,
\* return the same output, identifiers included.
C6_SameTreeSameOutput ==
    \A p \in Procs :
        (/\ Done(p) /\ OnNewDocument(p)
         /\ ref.tree = procs[p].tree /\ ref.hook = procs[p].hook)
            => procs[p].out = ref.out

C6_SecondDocumentRendered ==
    \E p \in Procs :
        /\ Done(p) /\ OnNewDocument(p) /\ ref.again
        /\ ref.tree = procs[p].tree /\ ref.hook = procs[p].hook
        /\ Len(procs[p].out.listeners) >= 2

ComponentNames == {"Wrap", "Btn", "Outer", "Plain"}

\* the component nodes of a tree, in the order they are met: those written in it,
\* those in the children of a component, those in what a component returns
RECURSIVE Occurrences(_)
Occurrences(element) ==
    IF element.k = "array"
    THEN IF element.els = <<>> THEN <<>>
         ELSE Occurrences(Head(element.els)) \o Occurrences(VArray(Tail(element.els)))
    ELSE IF element.k = "element"
    THEN LET inner == Occurrences(PropsChildren(element.props))
         IN  IF element.type.t = "function"
             THEN inner \o <<element.type.name>>
                    \o Occurrences(Component(element.type.name,
                           WithChildren(element.props, VStr("children"))))
             ELSE inner
    ELSE <<>>

Count(names, c) == Cardinality({i \in 1..Len(names) : names[i] = c})

\* C7: in one render the callback is called once for each occurrence of a
\* component node, no occurrence is skipped and none is created twice.
C7_OneCreationPerOccurrence ==
    \A p \in Procs :
        Done(p) =>
            LET created == [i \in 1..Len(procs[p].hookLog) |-> procs[p].hookLog[i].component]
                expected == Occurrences(Tree(procs[p].tree))
            IN  \A c \in ComponentNames : Count(created, c) = Count(expected, c)

C7_NestedComponentsCreated ==
    \E p \in Procs :
        /\ Done(p)
        /\ procs[p].tree.name = "inner"
        /\ Len(procs[p].hookLog) = 2

\* C8: the callback set with setCreateComponentCallback does not create the root
\* component, the node given to renderToDynamicMarkup.
C8_CallbackNotUsedForRoot ==
    \A p \in Procs :
        \A i \in 1..Len(procs[p].hookLog) :
            procs[p].hookLog[i].root => procs[p].hookLog[i].hook = "default"

\* C9: the callback is called with (callable, props, children), children being
\* the component's children node, and the default strategy calls the callable
\* with (props, children).
C9_CallbackGetsChildren ==
    \A p \in Procs :
        \A i \in 1..Len(procs[p].hookLog) :
            LET e == procs[p].hookLog[i]
            IN  /\ Len(e.args) = 3
                /\ e.args[3] = e.children
                /\ e.hook = "default" =>
                      /\ Len(e.call) = 2
                      /\ e.call[2] = e.children

\* a value that leaves the attribute out: false, null, undefined
LeavesOut(v) == v.k \in {"null", "undefined"} \/ (v.k = "boolean" /\ v.b = FALSE)

\* the names an attribute key may be emitted under
EmittedNames(key) == {KeyStr(key), KeyStr(ToLowerCase(key)), "class"}

\* C10: an attribute other than children whose value is false, null or undefined
\* is absent from the tag, and the render raises no error.
C10_FalseNullUndefinedOmitted ==
    \A p \in Procs :
        procs[p].tree.name = "attributes" =>
            /\ procs[p].pc # "threw"
            /\ Done(p) =>
                  \A i \in 1..Len(procs[p].tree.attributes) :
                      LET a == procs[p].tree.attributes[i]
                          content == procs[p].out.content
                      IN  (a.key # KChildren /\ LeavesOut(a.val)) =>
                              \A j \in 1..Len(content) :
                                  content[j].k \in {"attr", "bare"} =>
                                      content[j].a \notin EmittedNames(a.key)

\* ---------------------------------------------------------- attribute text

\* p1:v1;p2:v2
RECURSIVE Declarations(_)
Declarations(entries) ==
    IF entries = <<>> THEN ""
    ELSE Head(entries).key \o ":" \o Head(entries).val.s \o
         (IF Len(entries) > 1 THEN ";" \o Declarations(Tail(entries)) ELSE "")

\* the values C11 speaks of: not false (left out), not a handler under an
\* on-key (an event binding), not null under style
Serialized(a) ==
    /\ ~(a.val.k = "boolean" /\ ~a.val.b)
    /\ ~(a.val.k = "function" /\ a.key = KOnClick)
    /\ ~(a.val.k = "null" /\ a.key = KStyle)

\* the attribute text of one entry
AttributeText(a) ==
    IF a.val = VBool(TRUE) THEN <<Tok("bare", KeyStr(a.key), "", 0)>>
    ELSE IF a.key = KStyle /\ a.val.k = "object"
    THEN <<Tok("attr", "style", Declarations(a.val.entries), 0)>>
    ELSE IF a.val.k = "symbol" THEN <<>>
    ELSE IF a.key = KClassName THEN <<Tok("attr", "class", ToText(a.val), 0)>>
    ELSE <<Tok("attr", KeyStr(a.key), ToText(a.val), 0)>>

RECURSIVE AttributesText(_)
AttributesText(attributes) ==
    IF attributes = <<>> THEN <<>>
    ELSE AttributeText(Head(attributes)) \o AttributesText(Tail(attributes))

\* C11: the attribute text of a tag is the concatenation, in key insertion
\* order, of the bare key for true, style="p1:v1;p2:v2" for a style map under
\* style, class="v" for className, key="v" for any other value that is not a
\* symbol, and nothing for a symbol.
C11_AttributesInInsertionOrder ==
    \A p \in Procs :
        LET attributes == procs[p].tree.attributes
        IN  (/\ procs[p].tree.name = "attributes"
             /\ Done(p)
             /\ \A i \in 1..Len(attributes) : Serialized(attributes[i])) =>
                procs[p].out.content =
                    <<Tok("open", "div", "", 0)>> \o AttributesText(attributes)
                        \o <<Tok("gt", "", "", 0), Tok("close", "div", "", 0)>>

C11_StyleAfterClassNameRendered ==
    \E p \in Procs :
        /\ Done(p)
        /\ procs[p].tree.name = "attributes"
        /\ Len(procs[p].tree.attributes) = 2
        /\ procs[p].tree.attributes[1] = Prop(KClassName, VStr("a"))
        /\ procs[p].tree.attributes[2].key = KStyle
        /\ procs[p].tree.attributes[2].val.k = "object"
        /\ Len(procs[p].out.content) = 5

\* ------------------------------------------------------------ scalar leaves

Scalar(v) == v.k \in {"string", "number", "boolean", "null", "undefined"}

\* the literal text of a scalar
Literal(v) ==
    CASE v.k = "string" -> v.s
      [] v.k = "number" -> ToString(v.n)
      [] v.k = "boolean" -> IF v.b THEN "true" ELSE "false"
      [] v.k = "null" -> "null"
      [] OTHER -> "undefined"

\* the content of a render of text placed as the root, a list item, the child
\* of an element or the child of a Fragment
PlacedText(text, place) ==
    CASE place = "item" -> Text(text) \o Text("x")
      [] place = "child" ->
           <<Tok("open", "p", "", 0), Tok("gt", "", "", 0)>> \o Text(text)
               \o <<Tok("close", "p", "", 0)>>
      [] OTHER -> Text(text)

\* C12: a scalar leaf is serialized to its literal text wherever it occurs: a
\* string to itself, a number to its decimal form, true, false, null and
\* undefined to the words true, false, null and undefined.
C12_ScalarsRenderAsLiteralText ==
    \A p \in Procs :
        (/\ Done(p)
         /\ procs[p].tree.name = "node"
         /\ Scalar(Nodes[procs[p].tree.n])) =>
            procs[p].out.content =
                PlacedText(Literal(Nodes[procs[p].tree.n]), procs[p].tree.tag)

\* C13: a Fragment with children c is serialized to the string c is serialized
\* to, for every c, 0, the empty string, null and false included.
C13_FragmentRendersAsItsChildren ==
    \A p \in Procs :
        (/\ Done(p)
         /\ procs[p].tree.name = "node"
         /\ procs[p].tree.tag = "fragment") =>
            procs[p].out.content =
                RenderAlone(TreeId("node", "root", procs[p].tree.n, <<>>),
                            procs[p].hook).val

\* ------------------------------------------------------- rejected creations

\* C14: if the callback's promise rejects for a component, the render rejects
\* with that reason and returns no output, partial or complete.
C14_RejectedCreationRejectsRender ==
    \A p \in Procs :
        \A i \in 1..Len(procs[p].hookLog) :
            procs[p].hookLog[i].rejected # "" =>
                /\ procs[p].pc = "threw"
                /\ procs[p].error = procs[p].hookLog[i].rejected
                /\ procs[p].out = NoOutput

C14_SecondCreationRejected ==
    \E p \in Procs :
        /\ procs[p].pc = "threw"
        /\ Len(procs[p].hookLog) = 2
        /\ procs[p].hookLog[2].rejected \in Reasons
        /\ procs[p].error \in Reasons
        /\ Len(procs[p].tagLog) > 0

\* ------------------------------------------------------ returned document

\* the template literal of renderToDynamicMarkup: the parts of the returned
\* string from its start to its end
Returned(out) ==
    << [part |-> "lang", body |-> out.lang],
       [part |-> "title", body |-> out.title],
       [part |-> "metas", body |-> out.metas],
       [part |-> "links", body |-> out.links],
       [part |-> "styles", body |-> out.styles],
       [part |-> "headerScripts", body |-> out.headerScripts],
       [part |-> "content", body |-> out.content],
       [part |-> "bodyScripts", body |-> out.bodyScripts],
       [part |-> "listeners", body |-> out.listeners],
       [part |-> "noScript", body |-> out.noScript] >>

\* where a part stands in the returned string
Position(returned, part) == CHOOSE i \in 1..Len(returned) : returned[i].part = part

Part(returned, part) == returned[Position(returned, part)].body

\* the value of src in a script tag
SrcOf(tag) == tag[CHOOSE i \in 1..Len(tag) : tag[i].k = "attr" /\ tag[i].a = "src"].b

TagOf(type, attribute, text) ==
    <<Tok("open", type, "", 0)>> \o attribute \o <<Tok("gt", "", "", 0)>> \o text
        \o <<Tok("close", type, "", 0)>>

Has(tags, tag) == \E i \in 1..Len(tags) : tags[i] = tag

\* what a page component's call shows as in the returned document
Shows(method, out) ==
    CASE method = "setLang" -> out.lang = "fr"
      [] method = "setTitle" -> out.title = "Page"
      [] method = "setNoScript" -> out.noScript = "No script"
      [] method = "addMeta" ->
           Has(out.metas, TagOf("meta", <<Tok("attr", "name", "keywords", 0)>>, <<>>))
      [] method = "addLink" ->
           Has(out.links, TagOf("link", <<Tok("attr", "rel", "stylesheet", 0)>>, <<>>))
      [] method = "addStyle" ->
           Has(out.styles, TagOf("style", <<>>, <<Tok("text", "h1{}", "", 0)>>))
      [] method = "addHeaderScript" ->
           Has(out.headerScripts, TagOf("script", <<Tok("attr", "src", "a.js", 0)>>, <<>>))
      [] OTHER ->
           Has(out.bodyScripts,
               TagOf("script", <<>>,
                     <<Tok("text",
                           "document.addEventListener('DOMContentLoaded', () => {run()});",
                           "", 0)>>))

\* C16: a metadata call a component makes during a render, on the Document the
\* callback hands it, shows in the string that same render returns.
C16_CallsDuringRenderTakeEffect ==
    \A p \in Procs :
        (/\ Done(p)
         /\ procs[p].tree.name = "page"
         /\ \E i \in 1..Len(procs[p].hookLog) :
                /\ procs[p].hookLog[i].component = procs[p].tree.tag
                /\ Len(procs[p].hookLog[i].call) = 2) =>
            Shows(procs[p].tree.tag, procs[p].out)

C16_PageSetLangWhileRendering ==
    \E p \in Procs :
        /\ Done(p)
        /\ procs[p].tree = TreeId("page", "setLang", 1, <<>>)
        /\ procs[p].start.lang = "en"
        /\ procs[p].out.lang = "fr"
        /\ Len(procs[p].hookLog) = 1

\* -------------------------------------------------------- overlapping renders

\* C17: when two renders on the same Document overlap, each returns the
\* identifiers and the listener bindings it would return had it run alone.
C17_OverlappingRendersIndependent ==
    \A p \in Procs :
        (/\ Done(p)
         /\ ~touched
         /\ procs[p].start.identifier = 0
         /\ procs[p].start.listeners = <<>>
         /\ \A i \in 1..Len(procs[p].hookLog) :
                procs[p].hookLog[i].hook = procs[p].hook) =>
            LET alone == RenderAlone(procs[p].tree, procs[p].hook)
            IN  /\ procs[p].out.content = alone.val
                /\ procs[p].out.listeners = alone.listeners

\* -------------------------------------------------------------- termination

\* no component is left in the output of a render: each occurrence was created
\* and no tag bears a component's name
Expanded(p) ==
    /\ Len(procs[p].hookLog) = Len(Occurrences(Tree(procs[p].tree)))
    /\ procs[p].pending = NoPending
    /\ \A i \in 1..Len(procs[p].out.content) :
           procs[p].out.content[i].k \in {"open", "close"} =>
               procs[p].out.content[i].a \notin ComponentNames

\* C18: for a finite tree whose components expand to a component-free node, with
\* callbacks whose promises settle, every call of renderToDynamicMarkup
\* eventually returns, and no component is left unexpanded in what it returns.
C18_RenderTerminatesExpanded ==
    /\ \A p \in Procs : Active(p) ~> Done(p)
    /\ [](\A p \in Procs : Done(p) => Expanded(p))

C18_NestedComponentsExpanded ==
    \E p \in Procs :
        /\ Done(p)
        /\ procs[p].tree.name = "outer"
        /\ Len(procs[p].hookLog) = 2
        /\ \E i \in 1..Len(procs[p].out.content) :
               procs[p].out.content[i] = Tok("open", "button", "", 0)

\* ------------------------------------------------------------------ siblings

\* the event at path a belongs to the same list item as the event at path b, or
\* to an item before it, in the outermost list where the two part
NotAfter(a, b) ==
    LET shared == {i \in 1..Len(a) : i <= Len(b)}
        apart == {i \in shared : a[i] # b[i]}
    IN  apart # {} =>
            LET first == CHOOSE i \in apart : \A j \in apart : i <= j
            IN  a[first] < b[first]

\* C19: the siblings of a list are processed one after another: no callback is
\* called and no identifier is assigned in the subtree of a later sibling before
\* the subtree of an earlier sibling is serialized.
C19_SiblingsOneAfterAnother ==
    \A p \in Procs :
        \A i, j \in 1..Len(procs[p].events) :
            i < j => NotAfter(procs[p].events[i].path, procs[p].events[j].path)

C19_ComponentSiblingThenButton ==
    \E p \in Procs :
        /\ Done(p)
        /\ procs[p].tree.name = "inner"
        /\ procs[p].hook = "callback"
        /\ [i \in 1..Len(procs[p].events) |-> procs[p].events[i].kind] =
               <<"hook", "identifier", "hook", "serialized", "identifier", "serialized">>
        /\ [i \in 1..Len(procs[p].events) |-> procs[p].events[i].path] =
               <<<<1>>, <<1>>, <<1>>, <<1>>, <<2>>, <<2>>>>

\* ------------------------------------------------------------ event bindings

\* the event each on-key of the model names
EventOf(key) ==
    CASE key = KOnClick -> "click"
      [] key = KOnLoadUpper -> "load"
      [] key = KOnInputMixed -> "input"
      [] OTHER -> ""

\* the handlers of an attribute map: functions under on-keys, in insertion order
Handlers(attributes) ==
    SelectSeq(attributes, LAMBDA a : a.val.k = "function" /\ EventOf(a.key) # "")

\* C20: an attribute whose key starts with on, in any letter case, and whose
\* value is a function is never written as an attribute; it gives one binding
\* whose event type is the key without its first two characters, in lower case,
\* and data-listeners lists the event types of the bindings in insertion order.
C20_HandlersBecomeBindings ==
    \A p \in Procs :
        (Done(p) /\ procs[p].tree.name = "attributes") =>
            LET handlers == Handlers(procs[p].tree.attributes)
                types == [i \in 1..Len(handlers) |-> EventOf(handlers[i].key)]
                content == procs[p].out.content
                listed == SelectSeq(content, LAMBDA t : t.k = "data-listeners")
            IN  /\ \A i \in 1..Len(handlers) :
                       \A j \in 1..Len(content) :
                           content[j].k \in {"attr", "bare"} =>
                               content[j].a \notin {KeyStr(handlers[i].key),
                                                    KeyStr(ToLowerCase(handlers[i].key))}
                /\ IF handlers = <<>>
                   THEN listed = <<>> /\ procs[p].out.listeners = <<>>
                   ELSE /\ Len(listed) = 1
                        /\ listed[1].a = Join(types, ", ")
                        /\ Len(procs[p].out.listeners) = 1
                        /\ procs[p].out.listeners[1].binds =
                               [i \in 1..Len(handlers) |->
                                   [type |-> types[i], listener |-> handlers[i].val.src]]

C20_UpperCaseThenMixedCaseBound ==
    \E p \in Procs :
        /\ Done(p)
        /\ procs[p].tree.attributes =
               <<Prop(KOnLoadUpper, VFunction("f")), Prop(KOnInputMixed, VFunction("g"))>>
        /\ \E j \in 1..Len(procs[p].out.content) :
               procs[p].out.content[j] = Tok("data-listeners", "load, input", "", 0)

\* ------------------------------------------------------ unrecognized nodes

\* an object that is no scalar, list, Fragment, element or component
Unshaped(v) == v.k = "plain"

\* C21: a node of unrecognized shape is serialized to the empty string: the
\* render ends without an error and the node emits no tag.
C21_UnshapedNodeRendersEmpty ==
    \A p \in Procs :
        (/\ procs[p].pc \in {"done", "threw"}
         /\ procs[p].tree.name = "node"
         /\ Unshaped(Nodes[procs[p].tree.n])) =>
            /\ Done(p)
            /\ procs[p].error = ""
            /\ procs[p].out.content = PlacedText("", procs[p].tree.tag)

\* --------------------------------------------------------- class components

\* C22: a class component resolved with no callback registered is instantiated,
\* not called as a plain function: its creation does not fail with the
\* TypeError of a class called without new, and the render goes on.
C22_ClassComponentInstantiated ==
    \A p \in Procs :
        \A i \in 1..Len(procs[p].hookLog) :
            (/\ procs[p].hookLog[i].component \in Classes
             /\ procs[p].hookLog[i].hook = "default") =>
                /\ procs[p].hookLog[i].rejected = ""
                /\ procs[p].pc # "threw"

\* ------------------------------------------------- bindings and elements

\* the elements of a content that carry the identifier
Marked(content, id) ==
    {i \in 1..Len(content) : content[i].k = "data-identifier" /\ content[i].a = id}

\* C23: in the output of one render on a new Document, every identifier the
\* listener script looks up is the data-identifier of exactly one element of
\* the content, and every data-identifier of the content has its entry in the
\* script, whatever the components do with their children.
C23_BindingsMatchMarkedElements ==
    \A p \in Procs :
        Done(p) /\ OnNewDocument(p) =>
            LET content == procs[p].out.content
                script == procs[p].out.listeners
            IN  /\ \A i \in 1..Len(script) :
                      Cardinality(Marked(content, script[i].identifier)) = 1
                /\ \A i \in 1..Len(content) :
                      content[i].k = "data-identifier" =>
                          \E j \in 1..Len(script) : script[j].identifier = content[i].a

\* ------------------------------------------- metadata calls and the counter

\* C24: the calls of the metadata methods leave the identifier counter and the
\* listener registry as they were, whatever the attribute map: before the
\* first render the counter is 0 and the registry is empty, and the first
\* element with handlers of the first render gets counter 0.
C24_MetadataCallsKeepCounter ==
    /\ renders = 0 => identifier = 0 /\ listeners = <<>>
    /\ renders = 1 =>
          \A p \in Procs :
              \A i \in 1..Len(procs[p].tagLog) :
                  (/\ procs[p].tagLog[i].handlers > 0
                   /\ BoundBefore(procs[p].tagLog, i) = 0) =>
                      procs[p].tagLog[i].before = 0

\* --------------------------------------------------- registry and counter

\* the elements with handlers that the renders have serialized
Minted ==
    {e \in UNION {{[p |-> p, i |-> i] : i \in 1..Len(procs[p].tagLog)} : p \in Procs} :
        procs[e.p].tagLog[e.i].handlers > 0}

\* C25: in every state of a Document, whatever the interleaving of renders and
\* metadata calls, the registry has as many entries as the counter counts, its
\* k-th entry (from 0) is the one minted with counter k, and no counter value
\* is given to two elements.
C25_RegistryMatchesCounter ==
    /\ Len(listeners) = identifier
    /\ \A k \in 1..Len(listeners) : listeners[k].n = k - 1
    /\ \A e \in Minted :
          LET tag == procs[e.p].tagLog[e.i]
          IN  /\ tag.after = tag.before + 1
              /\ tag.before < Len(listeners)
              /\ listeners[tag.before + 1].identifier
                     = tag.type \o "_" \o ToString(tag.before)
    /\ \A e, f \in Minted :
          e # f => procs[e.p].tagLog[e.i].before # procs[f.p].tagLog[f.i].before

\* two overlapping renders and a header script have all minted identifiers
C25_OverlappingRendersAndScriptMinted ==
    /\ \A p \in Procs : Active(p) /\ \E e \in Minted : e.p = p
    /\ \E k \in 1..Len(listeners) : listeners[k].tag = "script"
    /\ identifier >= 3

\* ------------------------------------------------- the caller's attributes

\* the text between the opening and the closing tag
Body(tag) == SelectSeq(tag, LAMBDA t : t.k = "text")

\* C26: addStyle, addHeaderScript and addBodyScript leave the attribute map of
\* the caller as it was given: a call without content on a map that an
\* earlier call was given with a content produces a tag with an empty body.
C26_CallerMapNotModified ==
    \A i \in 1..Len(caller.calls) :
        LET call == caller.calls[i]
        IN  /\ call.after = call.before
            /\ call.content = Omitted(call.method) => Body(call.tag) = <<>>

\* ---------------------------------------------------------- aborted renders

\* C27: a render that aborts because the creation of a component failed leaves
\* the Document as it was before the call: the identifier counter and the
\* listener registry hold the values they had when the render started.
C27_AbortedRenderLeavesDocument ==
    \A p \in Procs :
        procs[p].pc = "threw" =>
            /\ identifier = procs[p].start.identifier
            /\ listeners = procs[p].start.listeners

====
